---- MODULE Spec2Model ----
(***************************************************************************)
(* Model of the geometry helpers (src/src/geometry_helper.py) and of the   *)
(* pairwise overlap loop (src/src/checker.py, src/src/config_assistant.py) *)
(* of aai-config-assist.                                                   *)
(*                                                                         *)
(* Numbers: the helpers compute with real numbers (numpy float arrays).    *)
(* A real x is held as the integer 2x (a count of halves), written R(n)    *)
(* for the whole number n, so that 0.5 * width is exact for every whole    *)
(* width.  Angles are the multiples of 90 degrees, whose sine and cosine   *)
(* are whole numbers, so every rotation is exact too.                      *)
(*                                                                         *)
(* Arrays: a numpy array is an object the callee shares with its caller.   *)
(* An operator that models a function returns the value the function       *)
(* returns together with the contents its array arguments hold afterwards. *)
(***************************************************************************)
EXTENDS Integers, Sequences, FiniteSets

VARIABLES
    \* determine_overlap_between_aligned_segments: the two arguments, the value
    \* returned for (segment1, segment2) and the one for (segment2, segment1)
    segment1, segment2, overlap, overlap_swapped,
    \* the rectangle functions: the caller's center array, the other arguments
    \* and the value returned by the latest call, and the number of calls made
    center, width, height, angle_deg, vertices, rotated_vertices, n_calls,
    \* calculate_clockwise_rotated_2d_point: the caller's points and pivot
    \* arrays, the default pivot object of line 48, whether the call leaves the
    \* pivot out, the angle, the points as they were before the first call, the
    \* arrays returned by the first and by the second call, the caller's position
    points, center_of_rotation, default_center_of_rotation, use_default,
    rot_angle_deg, points_before, rotated_points, restored_points, rot_pc,
    \* normalise_vector: the argument and the value returned
    vec, normalised_vec,
    \* the overlap loops: the list, the pairs of cuboids whose MTV is not zero,
    \* n, i, j and items_with_overlap of checker.py, the calls of
    \* apply_separating_axis_theorem made so far (by list positions), and
    \* which loop runs and whether it has returned
    cuboids, overlapping, n, i, j, items_with_overlap, sat_calls, chk_pc

seg_vars == <<segment1, segment2, overlap, overlap_swapped>>
rect_vars == <<center, width, height, angle_deg, vertices, rotated_vertices, n_calls>>
rot_vars == <<points, center_of_rotation, default_center_of_rotation, use_default,
              rot_angle_deg, points_before, rotated_points, restored_points, rot_pc>>
norm_vars == <<vec, normalised_vec>>
chk_vars == <<cuboids, overlapping, n, i, j, items_with_overlap, sat_calls, chk_pc>>
vars == <<seg_vars, rect_vars, rot_vars, norm_vars, chk_vars>>

\* ---------------------------------------------------------------- bounds
MaxCoord == 5
MaxCentre == 1
MaxDim == 4
MaxTurns == 2
MaxPoints == 2
MaxVecDim == 3
MaxComp == 2
MaxCuboids == 3
MaxCalls == 2

\* ---------------------------------------------------------------- numbers
\* The stored form of the whole number n.
R(x) == 2 * x

Min2(a, b) == IF a <= b THEN a ELSE b
Max2(a, b) == IF a >= b THEN a ELSE b

\* Python's min() and max() over the elements of a non-empty array.
MinOf(s) == CHOOSE m \in {s[k] : k \in DOMAIN s} : \A k \in DOMAIN s : m <= s[k]
MaxOf(s) == CHOOSE m \in {s[k] : k \in DOMAIN s} : \A k \in DOMAIN s : m >= s[k]

\* Outcome of a call: nothing yet, or the value the call returned.  None of
\* the modelled functions contains a raise statement.
NoCall == [kind |-> "none"]
Returned(v) == [kind |-> "returned", value |-> v]

\* ---------------------------------------------------------------- segments
determine_overlap_between_aligned_segments_unclamped(s1, s2) ==
    LET start1 == MinOf(s1)
        stop1 == MaxOf(s1)
        start2 == MinOf(s2)
        stop2 == MaxOf(s2)
    IN Min2(stop2, stop1) - Max2(start2, start1)

determine_overlap_between_aligned_segments_own_start(s1, s2) ==
    LET start1 == MinOf(s1)
        stop1 == MaxOf(s1)
        stop2 == MaxOf(s2)
    IN Max2(0, Min2(stop2, stop1) - start1)

determine_overlap_between_aligned_segments(s1, s2) ==
    LET start1 == MinOf(s1)
        stop1 == MaxOf(s1)
        start2 == MinOf(s2)
        stop2 == MaxOf(s2)
    IN Max2(0, Min2(stop2, stop1) - Max2(start2, start1))

Coords == {R(u) : u \in -1..MaxCoord}
Segments == {<<a, b>> : a \in Coords, b \in Coords}

SegIdle ==
    /\ segment1 = <<R(0), R(0)>>
    /\ segment2 = <<R(0), R(0)>>
    /\ overlap = NoCall
    /\ overlap_swapped = NoCall

SegInit ==
    /\ segment1 \in Segments
    /\ segment2 \in Segments
    /\ overlap = NoCall
    /\ overlap_swapped = NoCall

\* overlap = determine_overlap_between_aligned_segments(segment1, segment2)
DetermineOverlap ==
    /\ overlap = NoCall
    /\ overlap' = Returned(determine_overlap_between_aligned_segments(segment1, segment2))
    /\ UNCHANGED <<segment1, segment2, overlap_swapped>>
    /\ UNCHANGED <<rect_vars, rot_vars, norm_vars, chk_vars>>

\* the same call with the two arguments exchanged
DetermineOverlapSwapped ==
    /\ overlap_swapped = NoCall
    /\ overlap_swapped' = Returned(determine_overlap_between_aligned_segments(segment2, segment1))
    /\ UNCHANGED <<segment1, segment2, overlap>>
    /\ UNCHANGED <<rect_vars, rot_vars, norm_vars, chk_vars>>

\* ---------------------------------------------------------------- vectors
Add(p, q) == <<p[1] + q[1], p[2] + q[2]>>
Sub(p, q) == <<p[1] - q[1], p[2] - q[2]>>

\* 0.5 * x; exact, because every width and height is a whole number R(n).
Half(x) == x \div 2

\* np.cos(np.deg2rad(angle_deg)) and np.sin(np.deg2rad(angle_deg)) for a
\* multiple of 90 degrees.
Cos(a) ==
    LET q == (a \div 90) % 4
    IN CASE q = 0 -> 1 [] q = 1 -> 0 [] q = 2 -> -1 [] q = 3 -> 0

Sin(a) ==
    LET q == (a \div 90) % 4
    IN CASE q = 0 -> 0 [] q = 1 -> 1 [] q = 2 -> 0 [] q = 3 -> -1

rotation_mat_anticlockwise(a) == << <<Cos(a), -Sin(a)>>, <<Sin(a), Cos(a)>> >>

\* The clockwise rotation matrix of lines 66-69.
rotation_mat(a) == << <<Cos(a), Sin(a)>>, <<-Sin(a), Cos(a)>> >>

\* One column of np.matmul(rotation_mat, points.T).
MatVec(m, p) == <<m[1][1] * p[1] + m[1][2] * p[2], m[2][1] * p[1] + m[2][2] * p[2]>>

Whole == {R(u) : u \in -MaxCentre..MaxCentre}
Centres == {<<x, y>> : x \in Whole, y \in Whole}
Dims == {R(u) : u \in -1..MaxDim}
Angles == {90 * t : t \in -MaxTurns..MaxTurns}
Origin == <<R(0), R(0)>>

\* ---------------------------------------------------------------- rectangles
calculate_vertices_of_axis_aligned_rectangle_swapped(c, w, h) ==
    LET half_width == Half(h)
        half_height == Half(w)
        a == Add(c, <<-half_width, half_height>>)
        b == Add(c, <<half_width, half_height>>)
        cc == Add(c, <<half_width, -half_height>>)
        d == Add(c, <<-half_width, -half_height>>)
    IN [center |-> c, value |-> <<a, b, cc, d>>]

\* value: the returned 4x2 array; center: what the caller's center array holds
\* afterwards (center + np.array(...) builds a new array each time).
calculate_vertices_of_axis_aligned_rectangle(c, w, h) ==
    LET half_width == Half(w)
        half_height == Half(h)
        a == Add(c, <<-half_width, half_height>>)
        b == Add(c, <<half_width, half_height>>)
        cc == Add(c, <<half_width, -half_height>>)
        d == Add(c, <<-half_width, -half_height>>)
    IN [center |-> c, value |-> <<a, b, cc, d>>]

calculate_clockwise_rotated_2d_point_no_reverse(pts, a, c) ==
    LET translated == [k \in DOMAIN pts |-> Sub(pts[k], c)]
        rotated == [k \in DOMAIN pts |-> MatVec(rotation_mat(a), translated[k])]
    IN [points |-> translated, center_of_rotation |-> c, value |-> rotated]

\* value: the returned array; points, center_of_rotation: what the two
\* argument arrays hold afterwards.  Line 61 subtracts in place, in the
\* caller's points array; line 70 builds a new array, which line 73 updates.
calculate_clockwise_rotated_2d_point(pts, a, c) ==
    LET translated == [k \in DOMAIN pts |-> Sub(pts[k], c)]
        rotated == [k \in DOMAIN pts |-> MatVec(rotation_mat(a), translated[k])]
        back == [k \in DOMAIN pts |-> Add(rotated[k], c)]
    IN [points |-> translated, center_of_rotation |-> c, value |-> back]

calculate_vertices_of_rotated_rectangle_default_pivot(c, w, h, a) ==
    LET v == calculate_vertices_of_axis_aligned_rectangle(c, w, h)
        r == calculate_clockwise_rotated_2d_point(v.value, a, Origin)
    IN [center |-> v.center, value |-> r.value]

calculate_vertices_of_rotated_rectangle(c, w, h, a) ==
    LET v == calculate_vertices_of_axis_aligned_rectangle(c, w, h)
        r == calculate_clockwise_rotated_2d_point(v.value, a, v.center)
    IN [center |-> r.center_of_rotation, value |-> r.value]

RectIdle ==
    /\ center = Origin
    /\ width = R(1)
    /\ height = R(1)
    /\ angle_deg = 0
    /\ vertices = NoCall
    /\ rotated_vertices = NoCall
    /\ n_calls = 0

RectInit ==
    /\ center \in Centres
    /\ width = R(1)
    /\ height = R(1)
    /\ angle_deg = 0
    /\ vertices = NoCall
    /\ rotated_vertices = NoCall
    /\ n_calls = 0

\* vertices = calculate_vertices_of_axis_aligned_rectangle(center, w, h)
CallAxisAligned ==
    /\ n_calls < MaxCalls
    /\ \E w \in Dims, h \in Dims :
        LET r == calculate_vertices_of_axis_aligned_rectangle(center, w, h)
        IN /\ width' = w
           /\ height' = h
           /\ center' = r.center
           /\ vertices' = Returned(r.value)
    /\ rotated_vertices' = NoCall
    /\ n_calls' = n_calls + 1
    /\ UNCHANGED angle_deg
    /\ UNCHANGED <<seg_vars, rot_vars, norm_vars, chk_vars>>

\* rotated_vertices = calculate_vertices_of_rotated_rectangle(center, w, h, a)
CallRotated ==
    /\ n_calls < MaxCalls
    /\ \E w \in Dims, h \in Dims, a \in Angles :
        LET r == calculate_vertices_of_rotated_rectangle(center, w, h, a)
        IN /\ width' = w
           /\ height' = h
           /\ angle_deg' = a
           /\ center' = r.center
           /\ rotated_vertices' = Returned(r.value)
    /\ vertices' = NoCall
    /\ n_calls' = n_calls + 1
    /\ UNCHANGED <<seg_vars, rot_vars, norm_vars, chk_vars>>

\* ---------------------------------------------------------------- rotation
PointArrays == UNION {[1..m -> Centres] : m \in 1..MaxPoints}

RotIdle ==
    /\ points = <<Origin>>
    /\ points_before = <<Origin>>
    /\ center_of_rotation = Origin
    /\ default_center_of_rotation = Origin
    /\ use_default = FALSE
    /\ rot_angle_deg = 0
    /\ rotated_points = NoCall
    /\ restored_points = NoCall
    /\ rot_pc = "start"

\* The caller holds a points array and either a pivot array of its own or
\* none, in which case the call takes the default np.array([0, 0]) of line 48.
RotInit ==
    /\ points \in PointArrays
    /\ points_before = points
    /\ use_default \in BOOLEAN
    /\ center_of_rotation \in (IF use_default THEN {Origin} ELSE Centres)
    /\ default_center_of_rotation = Origin
    /\ rot_angle_deg \in Angles
    /\ rotated_points = NoCall
    /\ restored_points = NoCall
    /\ rot_pc = "start"

Pivot == IF use_default THEN default_center_of_rotation ELSE center_of_rotation

\* rotated_points = calculate_clockwise_rotated_2d_point(points, angle[, pivot])
RotateForward ==
    /\ rot_pc = "start"
    /\ LET r == calculate_clockwise_rotated_2d_point(points, rot_angle_deg, Pivot)
       IN /\ points' = r.points
          /\ center_of_rotation' =
                IF use_default THEN center_of_rotation ELSE r.center_of_rotation
          /\ default_center_of_rotation' =
                IF use_default THEN r.center_of_rotation ELSE default_center_of_rotation
          /\ rotated_points' = Returned(r.value)
    /\ rot_pc' = "rotated"
    /\ UNCHANGED <<use_default, rot_angle_deg, points_before, restored_points>>
    /\ UNCHANGED <<seg_vars, rect_vars, norm_vars, chk_vars>>

\* restored_points = calculate_clockwise_rotated_2d_point(rotated_points, -angle[, pivot])
RotateBack ==
    /\ rot_pc = "rotated"
    /\ LET r == calculate_clockwise_rotated_2d_point(rotated_points.value, -rot_angle_deg, Pivot)
       IN /\ rotated_points' = Returned(r.points)
          /\ center_of_rotation' =
                IF use_default THEN center_of_rotation ELSE r.center_of_rotation
          /\ default_center_of_rotation' =
                IF use_default THEN r.center_of_rotation ELSE default_center_of_rotation
          /\ restored_points' = Returned(r.value)
    /\ rot_pc' = "restored"
    /\ UNCHANGED <<points, use_default, rot_angle_deg, points_before>>
    /\ UNCHANGED <<seg_vars, rect_vars, norm_vars, chk_vars>>

\* ---------------------------------------------------------------- normalise
RECURSIVE SumSq(_)
SumSq(v) == IF v = <<>> THEN 0 ELSE v[1] * v[1] + SumSq(Tail(v))

\* np.linalg.norm(vec): the square root of the sum of squares, held by its
\* radicand.
linalg_norm(v) == [radicand |-> SumSq(v)]

\* x / norm in numpy float arithmetic: x/sqrt(radicand), and for a zero norm
\* nan (0/0) or an infinity (x/0), with a RuntimeWarning and no exception.
NaN == [kind |-> "nan"]
Inf(sign) == [kind |-> "inf", sign |-> sign]
Quotient(x, nrm) == [kind |-> "quotient", num |-> x, radicand |-> nrm.radicand]
Divide(x, nrm) ==
    IF nrm.radicand # 0 THEN Quotient(x, nrm)
    ELSE IF x = 0 THEN NaN
    ELSE Inf(IF x > 0 THEN 1 ELSE -1)

normalise_vector(v) ==
    LET norm == linalg_norm(v)
    IN [k \in DOMAIN v |-> Divide(v[k], norm)]

Comps == {R(c) : c \in -MaxComp..MaxComp}
Vectors == UNION {[1..d -> Comps] : d \in 1..MaxVecDim}
IsZero(v) == \A k \in DOMAIN v : v[k] = 0

NormIdle ==
    /\ vec = <<R(1)>>
    /\ normalised_vec = NoCall

NormInit ==
    /\ vec \in Vectors
    /\ normalised_vec = NoCall

\* normalised_vec = normalise_vector(vec)
Normalise ==
    /\ normalised_vec = NoCall
    /\ normalised_vec' = Returned(normalise_vector(vec))
    /\ UNCHANGED vec
    /\ UNCHANGED <<seg_vars, rect_vars, rot_vars, chk_vars>>

\* ---------------------------------------------------------------- checker
Ids == 1..MaxCuboids
Names == {"Wall 0", "Wall 1"}
Range(s) == {s[k] : k \in DOMAIN s}
Orders == {s \in UNION {[1..m -> Ids] : m \in 0..MaxCuboids} :
              \A a, b \in DOMAIN s : a # b => s[a] # s[b]}
Pairings == SUBSET {p \in SUBSET Ids : Cardinality(p) = 2}

\* The MTV of two cuboids: the zero vector unless the pair overlaps.  The
\* overlap of a pair is a property of the pair, whichever cuboid comes first.
apply_separating_axis_theorem(item1, item2) ==
    IF {item1.id, item2.id} \in overlapping THEN <<R(1), R(0)>> ELSE <<R(0), R(0)>>

\* np.all(np.isclose(mtv, np.array([0, 0])))
AllCloseToZero(mtv) == mtv[1] = 0 /\ mtv[2] = 0

\* First j of the inner loop: range(i + 1, n).
inner_start_self(ii) == ii
inner_start(ii) == ii + 1

ChkIdle ==
    /\ cuboids = <<>>
    /\ overlapping = {}
    /\ n = 0
    /\ i = 0
    /\ j = 0
    /\ items_with_overlap = {}
    /\ sat_calls = <<>>
    /\ chk_pc = "idle"

\* The call starts: items_with_overlap = set(), n = len(cuboids), and the two
\* loops stand before their first pair.
ChkInit ==
    /\ \E names \in [Ids -> Names], order \in Orders :
        cuboids = [k \in DOMAIN order |-> [id |-> order[k], name |-> names[order[k]]]]
    /\ overlapping \in Pairings
    /\ n = Len(cuboids)
    /\ i = 0
    /\ j = inner_start(0)
    /\ items_with_overlap = {}
    /\ sat_calls = <<>>
    /\ chk_pc \in {"Checker", "ConfigAssistant"}

\* The loops move to the next pair: the next j of this i, or the first j of
\* the next i.
Advance ==
    IF j + 1 < n
    THEN i' = i /\ j' = j + 1
    ELSE i' = i + 1 /\ j' = inner_start(i + 1)

\* One pass of the inner loop body of Checker.check_overlaps_between_cuboids.
CheckPair ==
    /\ chk_pc = "Checker"
    /\ i < n /\ j < n
    /\ LET item1 == cuboids[i + 1]
           item2 == cuboids[j + 1]
           mtv == apply_separating_axis_theorem(item1, item2)
       IN /\ sat_calls' = Append(sat_calls, <<i, j>>)
          /\ items_with_overlap' =
                IF ~AllCloseToZero(mtv)
                THEN items_with_overlap \cup {item1.name, item2.name}
                ELSE items_with_overlap
    /\ Advance
    /\ UNCHANGED <<cuboids, overlapping, n, chk_pc>>
    /\ UNCHANGED <<seg_vars, rect_vars, rot_vars, norm_vars>>

\* return items_with_overlap
CheckReturn ==
    /\ chk_pc = "Checker"
    /\ ~(i < n /\ j < n)
    /\ chk_pc' = "Checker returned"
    /\ UNCHANGED <<cuboids, overlapping, n, i, j, items_with_overlap, sat_calls>>
    /\ UNCHANGED <<seg_vars, rect_vars, rot_vars, norm_vars>>

\* One pass of the inner loop body of
\* ConfigAssistant._check_overlaps_between_cuboids, which drops the MTV.
AssistPair ==
    /\ chk_pc = "ConfigAssistant"
    /\ i < n /\ j < n
    /\ sat_calls' = Append(sat_calls, <<i, j>>)
    /\ Advance
    /\ UNCHANGED <<cuboids, overlapping, n, items_with_overlap, chk_pc>>
    /\ UNCHANGED <<seg_vars, rect_vars, rot_vars, norm_vars>>

AssistReturn ==
    /\ chk_pc = "ConfigAssistant"
    /\ ~(i < n /\ j < n)
    /\ chk_pc' = "ConfigAssistant returned"
    /\ UNCHANGED <<cuboids, overlapping, n, i, j, items_with_overlap, sat_calls>>
    /\ UNCHANGED <<seg_vars, rect_vars, rot_vars, norm_vars>>

\* ---------------------------------------------------------------- specifications
InitOverlap == SegInit /\ RectIdle /\ RotIdle /\ NormIdle /\ ChkIdle
NextOverlap == DetermineOverlap \/ DetermineOverlapSwapped
SpecOverlap == InitOverlap /\ [][NextOverlap]_vars

InitRect == SegIdle /\ RectInit /\ RotIdle /\ NormIdle /\ ChkIdle
NextRect == CallAxisAligned \/ CallRotated
SpecRect == InitRect /\ [][NextRect]_vars

InitRotate == SegIdle /\ RectIdle /\ RotInit /\ NormIdle /\ ChkIdle
NextRotate == RotateForward \/ RotateBack
SpecRotate == InitRotate /\ [][NextRotate]_vars

InitNormalise == SegIdle /\ RectIdle /\ RotIdle /\ NormInit /\ ChkIdle
NextNormalise == Normalise
SpecNormalise == InitNormalise /\ [][NextNormalise]_vars

InitChecker == SegIdle /\ RectIdle /\ RotIdle /\ NormIdle /\ ChkInit
NextChecker == CheckPair \/ CheckReturn \/ AssistPair \/ AssistReturn
SpecChecker == InitChecker /\ [][NextChecker]_vars

\* ---------------------------------------------------------------- claims
Lo(s) == Min2(s[1], s[2])
Hi(s) == Max2(s[1], s[2])

\* The half-unit cells [k, k+1] that lie in both segments: their number is the
\* length of the common part.
CommonCells(s1, s2) ==
    {k \in R(-1)..R(MaxCoord) :
        /\ Lo(s1) <= k /\ k + 1 <= Hi(s1)
        /\ Lo(s2) <= k /\ k + 1 <= Hi(s2)}

\* C1: the overlap of two segments on a line is
\* max(0, min(a.max, b.max) - max(a.min, b.min)): never negative, 0 for
\* disjoint or touching segments, otherwise the length of the common part;
\* {0,2},{1,3} gives 1, {0,1},{1,2} gives 0, {0,5},{1,2} gives 1.
C1_OverlapValue ==
    overlap.kind = "returned" =>
        /\ overlap.value =
              Max2(0, Min2(Hi(segment1), Hi(segment2)) - Max2(Lo(segment1), Lo(segment2)))
        /\ overlap.value >= 0
        /\ (Hi(segment1) <= Lo(segment2) \/ Hi(segment2) <= Lo(segment1))
              => overlap.value = 0
        /\ overlap.value = Cardinality(CommonCells(segment1, segment2))
        /\ (segment1 = <<R(0), R(2)>> /\ segment2 = <<R(1), R(3)>>) => overlap.value = R(1)
        /\ (segment1 = <<R(0), R(1)>> /\ segment2 = <<R(1), R(2)>>) => overlap.value = R(0)
        /\ (segment1 = <<R(0), R(5)>> /\ segment2 = <<R(1), R(2)>>) => overlap.value = R(1)

C1_Witness ==
    /\ overlap = Returned(R(1))
    /\ segment1 = <<R(0), R(5)>>
    /\ segment2 = <<R(1), R(2)>>

\* C2: the overlap is symmetric: the call with the two segments exchanged
\* returns the same value.
C2_OverlapSymmetric ==
    (overlap.kind = "returned" /\ overlap_swapped.kind = "returned")
        => overlap.value = overlap_swapped.value

C2_Witness ==
    /\ overlap.kind = "returned"
    /\ overlap_swapped.kind = "returned"
    /\ segment1 = <<R(2), R(0)>>
    /\ segment2 = <<R(1), R(3)>>
    /\ overlap_swapped.value = R(1)

\* C3: the axis-aligned rectangle has exactly 4 corners, in the order
\* top-left (cx-w/2, cy+h/2), top-right (cx+w/2, cy+h/2), bottom-right
\* (cx+w/2, cy-h/2), bottom-left (cx-w/2, cy-h/2); they are symmetric about
\* the centroid and opposite corners differ by (w, h) in absolute value;
\* centroid (0,0), width 2, height 4 gives (-1,2),(1,2),(1,-2),(-1,-2).
Abs(x) == IF x < 0 THEN -x ELSE x

C3_AxisAlignedCorners ==
    vertices.kind = "returned" =>
        LET v == vertices.value
        IN /\ Len(v) = 4
           /\ \A k \in 1..4 : Len(v[k]) = 2
           /\ 2 * v[1][1] = 2 * center[1] - width /\ 2 * v[1][2] = 2 * center[2] + height
           /\ 2 * v[2][1] = 2 * center[1] + width /\ 2 * v[2][2] = 2 * center[2] + height
           /\ 2 * v[3][1] = 2 * center[1] + width /\ 2 * v[3][2] = 2 * center[2] - height
           /\ 2 * v[4][1] = 2 * center[1] - width /\ 2 * v[4][2] = 2 * center[2] - height
           /\ Add(v[1], v[3]) = Add(center, center)
           /\ Add(v[2], v[4]) = Add(center, center)
           /\ Abs(v[1][1] - v[3][1]) = Abs(width) /\ Abs(v[1][2] - v[3][2]) = Abs(height)
           /\ Abs(v[2][1] - v[4][1]) = Abs(width) /\ Abs(v[2][2] - v[4][2]) = Abs(height)
           /\ (center = Origin /\ width = R(2) /\ height = R(4))
                 => v = << <<R(-1), R(2)>>, <<R(1), R(2)>>, <<R(1), R(-2)>>, <<R(-1), R(-2)>> >>

C3_Witness ==
    /\ vertices.kind = "returned"
    /\ center = <<R(1), R(-1)>>
    /\ width = R(3)
    /\ height = R(4)
    /\ vertices.value[1] = <<-1, 2>>

DistSq(p, q) == (p[1] - q[1]) * (p[1] - q[1]) + (p[2] - q[2]) * (p[2] - q[2])

\* C4: the rotation is rigid and clockwise: every returned point is as far from
\* the pivot as the point given, angle 0 returns the points given, and a
\* quarter turn maps the offset (dx, dy) from the pivot to (dy, -dx).
C4_RigidClockwise ==
    rot_pc = "rotated" =>
        LET out == rotated_points.value
        IN /\ DOMAIN out = DOMAIN points_before
           /\ \A k \in DOMAIN out :
                 /\ DistSq(out[k], Pivot) = DistSq(points_before[k], Pivot)
                 /\ rot_angle_deg = 0 => out[k] = points_before[k]
                 /\ rot_angle_deg = 90 =>
                       LET off == Sub(points_before[k], Pivot)
                       IN Sub(out[k], Pivot) = <<off[2], -off[1]>>

C4_Witness ==
    /\ rot_pc = "rotated"
    /\ rot_angle_deg = 90
    /\ ~use_default
    /\ center_of_rotation = <<R(1), R(0)>>
    /\ points_before = << <<R(1), R(1)>>, <<R(-1), R(0)>> >>
    /\ rotated_points.value = << <<R(2), R(0)>>, <<R(1), R(2)>> >>

\* C5: rotating by an angle and then rotating the result by the opposite angle
\* about the same pivot gives the coordinates the points had before the first
\* call.
C5_RoundTrip ==
    rot_pc = "restored" => restored_points.value = points_before

C5_Witness ==
    /\ rot_pc = "restored"
    /\ rot_angle_deg = -90
    /\ ~use_default
    /\ center_of_rotation = <<R(1), R(-1)>>
    /\ points_before = << <<R(0), R(1)>> >>
    /\ restored_points.value = points_before

\* C6: the rotation does not change its arguments: after a call the points
\* array, the pivot array and the default pivot hold what they held before.
C6_ArgumentsKept ==
    [][/\ points' = points
       /\ center_of_rotation' = center_of_rotation
       /\ default_center_of_rotation' = default_center_of_rotation
       /\ rot_pc = "rotated" => rotated_points'.value = rotated_points.value]_vars

\* C7: normalising a zero-length vector ends in a DegenerateAxisError and
\* never returns the result of a division by zero; a non-zero vector comes
\* back divided by its Euclidean norm.
C7_ZeroVectorRejected ==
    normalised_vec # NoCall =>
        IF IsZero(vec)
        THEN normalised_vec.kind = "DegenerateAxisError"
        ELSE /\ normalised_vec.kind = "returned"
             /\ \A k \in DOMAIN vec :
                   normalised_vec.value[k] =
                       [kind |-> "quotient", num |-> vec[k], radicand |-> SumSq(vec)]

\* C8: a width or height that is not positive ends in an InvalidShapeError:
\* no vertex set is returned for it.
C8_NonPositiveRejected ==
    (width <= 0 \/ height <= 0) =>
        /\ vertices.kind # "returned"
        /\ rotated_vertices.kind # "returned"

\* C9: the loop evaluates each pair of list positions i < j exactly once and no
\* position against itself, and returns the names of exactly the cuboids that
\* are in an overlapping pair with another cuboid of the list.  That set is
\* fixed by the members of the list, whatever their order.
PositionPairs == {<<a, b>> \in (0..(n - 1)) \X (0..(n - 1)) : a < b}

EachPairOnce ==
    /\ Range(sat_calls) = PositionPairs
    /\ Len(sat_calls) = Cardinality(PositionPairs)

Involved ==
    {c \in Range(cuboids) :
        \E d \in Range(cuboids) : d.id # c.id /\ {c.id, d.id} \in overlapping}

C9_PairsAndNames ==
    /\ \A k \in DOMAIN sat_calls :
          /\ sat_calls[k][1] < sat_calls[k][2]
          /\ \A m \in DOMAIN sat_calls : m # k => sat_calls[m] # sat_calls[k]
    /\ chk_pc = "Checker returned" =>
          /\ EachPairOnce
          /\ items_with_overlap = {c.name : c \in Involved}
          /\ n <= 1 => items_with_overlap = {}
    /\ chk_pc = "ConfigAssistant returned" => EachPairOnce

C9_Witness ==
    /\ chk_pc = "Checker returned"
    /\ n = 3
    /\ Len(sat_calls) = 3
    /\ Cardinality(overlapping) = 1
    /\ items_with_overlap = {"Wall 1"}
    /\ cuboids[1].name = "Wall 0"

\* C10: the rotated rectangle is a function of the arguments of the call alone,
\* whatever calls came before: corner k is the centre plus the clockwise
\* rotation of the k-th axis-aligned offset; and no call changes the caller's
\* center array.
Turned(off, a) ==
    LET q == (a \div 90) % 4
    IN CASE q = 0 -> off
         [] q = 1 -> <<off[2], -off[1]>>
         [] q = 2 -> <<-off[1], -off[2]>>
         [] q = 3 -> <<-off[2], off[1]>>

Offsets == << <<-width, height>>, <<width, height>>, <<width, -height>>, <<-width, -height>> >>

RotatedCorners ==
    rotated_vertices.kind = "returned" =>
        LET v == rotated_vertices.value
        IN /\ Len(v) = 4
           /\ \A k \in 1..4 :
                 <<2 * (v[k][1] - center[1]), 2 * (v[k][2] - center[2])>>
                     = Turned(Offsets[k], angle_deg)

C10_StatelessRotatedRectangle ==
    /\ []RotatedCorners
    /\ [][center' = center]_vars

C10_Witness ==
    /\ n_calls = 2
    /\ rotated_vertices.kind = "returned"
    /\ angle_deg = 90
    /\ center = <<R(1), R(-1)>>
    /\ width = R(2)
    /\ height = R(4)
    /\ rotated_vertices.value[1] = <<R(3), R(0)>>

====
